---- MODULE Spec2Model ----
(***************************************************************************)
(* A model of NgEntryPoint (src/lib/ng-package/entry-point/entry-point.ts) *)
(* of ng-packagr: the tree of entry points of a library and every path and *)
(* identifier derived from it.                                             *)
(*                                                                         *)
(* Strings are sequences of atoms.  The atoms "/", "\\", ".", ":", "@" and *)
(* "-" are the characters the code tells apart; every other atom ("lib",   *)
(* "dist", "ts", ...) stands for a non-empty run of ordinary characters.   *)
(* JavaScript values are tagged records, and a thrown TypeError is the     *)
(* value TypeError, which every operator propagates.                       *)
(***************************************************************************)
EXTENDS Integers, Sequences, FiniteSets, TLC

VARIABLES host, eps, call

vars == <<host, eps, call>>

(***************************************************************************)
(* Bounds of the model.                                                    *)
(***************************************************************************)
MaxEntryPoints == 3

(***************************************************************************)
(* JavaScript values.                                                      *)
(***************************************************************************)
Undefined == [t |-> "undefined"]
Null == [t |-> "null"]
TypeError == [t |-> "TypeError"]
Str(s) == [t |-> "string", s |-> s]
Bool(b) == [t |-> "boolean", b |-> b]
Num(n) == [t |-> "number", n |-> n]
Obj(o) == [t |-> "object", o |-> o]
Arr(a) == [t |-> "array", a |-> a]

IsString(v) == v.t = "string"
Threw(v) == v.t = "TypeError"

\* typeof v === 'object' : true of objects, of arrays and of null
TypeofObject(v) == v.t \in {"object", "array", "null"}

\* the truthiness the || operator tests
Truthy(v) ==
    CASE v.t = "undefined" -> FALSE
      [] v.t = "null" -> FALSE
      [] v.t = "string" -> v.s # <<>>
      [] v.t = "boolean" -> v.b
      [] v.t = "number" -> v.n # 0
      [] OTHER -> TRUE

DigitAtoms == <<"0", "1", "2", "3", "4", "5", "6", "7", "8", "9">>

\* the own property names of an array: its indices and "length"
ArrayKeys(a) == {<<DigitAtoms[k]>> : k \in 1..Len(a)} \cup {<<"length">>}

\* value.hasOwnProperty(key); calling it on null throws, which the callers
\* test with v.t = "null" before they use this
HasOwnProperty(v, key) ==
    CASE v.t = "object" -> key \in DOMAIN v.o
      [] v.t = "array" -> key \in ArrayKeys(v.a)
      [] OTHER -> FALSE

\* value[key] for an own property
GetOwn(v, key) ==
    CASE v.t = "object" -> v.o[key]
      [] v.t = "array" ->
           IF key = <<"length">> THEN Num(Len(v.a))
           ELSE v.a[CHOOSE k \in 1..Len(v.a) : <<DigitAtoms[k]>> = key]
      [] OTHER -> Undefined

\* obj[key] : undefined when the property is absent
Prop(v, key) == IF HasOwnProperty(v, key) THEN GetOwn(v, key) ELSE Undefined

\* the string a template literal `${v}` makes of a primitive value
ToStr(v) ==
    CASE v.t = "string" -> v.s
      [] v.t = "undefined" -> <<"undefined">>
      [] v.t = "null" -> <<"null">>
      [] v.t = "boolean" -> IF v.b THEN <<"true">> ELSE <<"false">>
      [] v.t = "number" -> <<DigitAtoms[v.n + 1]>>
      [] OTHER -> <<"[object]">>

(***************************************************************************)
(* String operations.                                                      *)
(***************************************************************************)
RECURSIVE SplitAt(_, _, _)
\* s.split(c) for a set of one-atom separators: the pieces between the
\* separators, the empty ones included; cur is the piece being read
SplitAt(s, seps, cur) ==
    IF s = <<>> THEN <<cur>>
    ELSE IF Head(s) \in seps THEN <<cur>> \o SplitAt(Tail(s), seps, <<>>)
    ELSE SplitAt(Tail(s), seps, Append(cur, Head(s)))

Split(s, c) == SplitAt(s, {c}, <<>>)

RECURSIVE Join(_, _)
\* parts.join(sep)
Join(parts, sep) ==
    IF parts = <<>> THEN <<>>
    ELSE IF Len(parts) = 1 THEN parts[1]
    ELSE parts[1] \o sep \o Join(Tail(parts), sep)

StartsWith(s, c) == s # <<>> /\ Head(s) = c

\* s.replace(/c/g, d)
ReplaceAll(s, c, d) == [k \in 1..Len(s) |-> IF s[k] = c THEN d ELSE s[k]]

RECURSIVE NonEmpty(_)
\* the non-empty strings of a sequence of strings, in order
NonEmpty(parts) ==
    IF parts = <<>> THEN <<>>
    ELSE IF Head(parts) = <<>> THEN NonEmpty(Tail(parts))
    ELSE <<Head(parts)>> \o NonEmpty(Tail(parts))

(***************************************************************************)
(* Node's path module, as the host provides it: path.posix on a POSIX      *)
(* host, path.win32 on Windows.  UNC roots (a path that starts with two    *)
(* separators) are not modelled, and letter case is not: no input has      *)
(* either.                                                                 *)
(***************************************************************************)
Hosts == {"posix", "win32"}

\* path.sep
Sep(h) == IF h = "win32" THEN "\\" ELSE "/"

\* isPathSeparator / isPosixPathSeparator
Seps(h) == IF h = "win32" THEN {"/", "\\"} ELSE {"/"}

\* isWindowsDeviceRoot
DriveLetters == {"C", "D"}

DotDot == <<".", ".">>

\* process.cwd()
Cwd(h) == IF h = "win32" THEN <<"C", ":", "\\", "cwd">> ELSE <<"/", "cwd">>

\* the root of a path: its device (win32), whether it is rooted, and the rest
ParsePath(h, p) ==
    IF h = "posix"
    THEN [device |-> <<>>, abs |-> StartsWith(p, "/"), tail |-> p]
    ELSE IF p # <<>> /\ p[1] \in Seps(h)
    THEN [device |-> <<>>, abs |-> TRUE, tail |-> SubSeq(p, 2, Len(p))]
    ELSE IF Len(p) >= 3 /\ p[1] \in DriveLetters /\ p[2] = ":" /\ p[3] \in Seps(h)
    THEN [device |-> <<p[1], ":">>, abs |-> TRUE, tail |-> SubSeq(p, 4, Len(p))]
    ELSE IF Len(p) >= 2 /\ p[1] \in DriveLetters /\ p[2] = ":"
    THEN [device |-> <<p[1], ":">>, abs |-> FALSE, tail |-> SubSeq(p, 3, Len(p))]
    ELSE [device |-> <<>>, abs |-> FALSE, tail |-> p]

RECURSIVE NormalizeSegs(_, _, _)
\* normalizeString on segments: drops "" and ".", and lets ".." remove the
\* segment before it; above the start, ".." is kept only when allowAboveRoot
NormalizeSegs(segs, allowAboveRoot, res) ==
    IF segs = <<>> THEN res
    ELSE IF Head(segs) = <<>> \/ Head(segs) = <<".">>
    THEN NormalizeSegs(Tail(segs), allowAboveRoot, res)
    ELSE IF Head(segs) # DotDot
    THEN NormalizeSegs(Tail(segs), allowAboveRoot, Append(res, Head(segs)))
    ELSE IF res # <<>> /\ res[Len(res)] # DotDot
    THEN NormalizeSegs(Tail(segs), allowAboveRoot, SubSeq(res, 1, Len(res) - 1))
    ELSE IF allowAboveRoot
    THEN NormalizeSegs(Tail(segs), allowAboveRoot, Append(res, DotDot))
    ELSE NormalizeSegs(Tail(segs), allowAboveRoot, res)

\* the segments of a rootless path, normalized
Segments(h, tail, allowAboveRoot) ==
    NormalizeSegs(SplitAt(tail, Seps(h), <<>>), allowAboveRoot, <<>>)

\* normalizeString(path, allowAboveRoot, separator, isPathSeparator)
normalizeString(h, tail, allowAboveRoot) ==
    Join(Segments(h, tail, allowAboveRoot), <<Sep(h)>>)

\* one argument of path.resolve, parsed as q, taken into the result so far
ResolveStep(h, acc, q) ==
    [device |-> IF acc.device = <<>> THEN q.device ELSE acc.device,
     tail |-> IF acc.abs THEN acc.tail ELSE q.tail \o <<Sep(h)>> \o acc.tail,
     abs |-> acc.abs \/ q.abs,
     threw |-> FALSE]

\* the path the loop of path.resolve reads next: its last argument left, or
\* the working directory (on win32, that of the device already found)
ResolveNext(h, args, acc) ==
    IF args # <<>> THEN args[Len(args)]
    ELSE IF h = "win32" /\ acc.device # <<>>
            /\ acc.device # ParsePath(h, Cwd(h)).device
    THEN Str(acc.device \o <<"\\">>)
    ELSE Str(Cwd(h))

\* whether the loop of path.resolve passes over the path v, parsed as q
ResolveSkips(acc, v, q) ==
    \/ v.s = <<>>
    \/ q.device # <<>> /\ acc.device # <<>> /\ q.device # acc.device

RECURSIVE ResolveFrom(_, _, _)
RECURSIVE ResolveWith(_, _, _, _)
\* the loop of path.resolve over its arguments, last first, then the working
\* directory: it stops at the first rooted path (on win32, once the device is
\* known too) and validates an argument only when it reaches it
ResolveFrom(h, args, acc) ==
    IF acc.threw \/ (acc.abs /\ (h = "posix" \/ acc.device # <<>>)) THEN acc
    ELSE ResolveWith(h, SubSeq(args, 1, Len(args) - 1), acc, ResolveNext(h, args, acc))

ResolveWith(h, rest, acc, v) ==
    IF ~IsString(v) THEN [acc EXCEPT !.threw = TRUE]
    ELSE IF ResolveSkips(acc, v, ParsePath(h, v.s)) THEN ResolveFrom(h, rest, acc)
    ELSE ResolveFrom(h, rest, ResolveStep(h, acc, ParsePath(h, v.s)))

\* what path.resolve returns for the result r of its loop and r's tail, t,
\* normalized
Resolved(h, r, t) ==
    IF r.threw THEN TypeError
    ELSE IF r.abs THEN Str(r.device \o <<Sep(h)>> \o t)
    ELSE IF r.device \o t # <<>> THEN Str(r.device \o t)
    ELSE Str(<<".">>)

ResolveTail(h, r) == Resolved(h, r, normalizeString(h, r.tail, ~r.abs))

\* path.resolve(...args): an absolute, normalized path; a TypeError when an
\* argument it reaches is not a string
PathResolve(h, args) ==
    ResolveTail(h, ResolveFrom(h, args,
                    [device |-> <<>>, tail |-> <<>>, abs |-> FALSE, threw |-> FALSE]))

\* what path.normalize returns for the path p with root q and normalized
\* tail t0: "." for an empty relative path, a trailing separator kept
Normalized(h, p, q, t0) ==
    q.device \o (IF q.abs THEN <<Sep(h)>> ELSE <<>>)
      \o (IF t0 = <<>> /\ ~q.abs
          THEN (IF p[Len(p)] \in Seps(h) THEN <<".", Sep(h)>> ELSE <<".">>)
          ELSE IF t0 # <<>> /\ p[Len(p)] \in Seps(h) THEN t0 \o <<Sep(h)>>
          ELSE t0)

NormalizeRoot(h, p, q) == Normalized(h, p, q, normalizeString(h, q.tail, ~q.abs))

\* path.normalize(p) of a string
Normalize(h, p) == IF p = <<>> THEN <<".">> ELSE NormalizeRoot(h, p, ParsePath(h, p))

\* the arguments of path.join joined, then normalized
JoinedPath(h, joined) ==
    IF joined = <<>> THEN Str(<<".">>) ELSE Str(Normalize(h, joined))

\* path.join(...args): the non-empty arguments joined by the separator, then
\* normalized; a TypeError when an argument is not a string
PathJoin(h, args) ==
    IF \E k \in 1..Len(args) : ~IsString(args[k]) THEN TypeError
    ELSE JoinedPath(h, Join(NonEmpty([k \in 1..Len(args) |-> args[k].s]), <<Sep(h)>>))

\* the length of the longest common prefix of two sequences
RECURSIVE CommonPrefix(_, _)
CommonPrefix(a, b) ==
    IF a = <<>> \/ b = <<>> \/ Head(a) # Head(b) THEN 0
    ELSE 1 + CommonPrefix(Tail(a), Tail(b))

\* one ".." for every segment of fs below the first k, then the segments of
\* gs below the first k
RelativeSegs(h, fs, gs, k) ==
    Str(Join([n \in 1..(Len(fs) - k) |-> DotDot] \o SubSeq(gs, k + 1, Len(gs)),
             <<Sep(h)>>))

RelativeOf(h, fs, gs) == RelativeSegs(h, fs, gs, CommonPrefix(fs, gs))

\* path.relative for from resolved and parsed as f, to resolved as toPath and
\* parsed as g: on different devices there is no relative path
RelativeParsed(h, f, toPath, g) ==
    IF f.device # g.device THEN toPath
    ELSE RelativeOf(h, Segments(h, f.tail, FALSE), Segments(h, g.tail, FALSE))

RelativeResolved(h, fromPath, toPath) ==
    RelativeParsed(h, ParsePath(h, fromPath.s), toPath, ParsePath(h, toPath.s))

\* path.relative(from, to): both resolved, then one ".." for every segment of
\* from below the common directory, then the segments of to below it
PathRelative(h, from, to) ==
    IF ~IsString(from) \/ ~IsString(to) THEN TypeError
    ELSE IF from = to THEN Str(<<>>)
    ELSE RelativeResolved(h, PathResolve(h, <<from>>), PathResolve(h, <<to>>))

\* path.isAbsolute(p)
PathIsAbsolute(h, v) ==
    IF ~IsString(v) THEN TypeError ELSE Bool(ParsePath(h, v.s).abs)

(***************************************************************************)
(* ensureUnixPath of src/lib/utils/path.ts: every backslash becomes a      *)
(* forward slash, on any host; null for an empty or absent path.           *)
(***************************************************************************)
ensureUnixPath(v) ==
    IF ~Truthy(v) THEN Null ELSE Str(ReplaceAll(v.s, "\\", "/"))

(***************************************************************************)
(* NgEntryPoint.  eps[i] holds the constructor's arguments of the i-th     *)
(* entry point constructed: packageJson, ngPackageJson, basePath and       *)
(* parent (the index of the parent entry point, 0 when there is none).     *)
(***************************************************************************)
NoParent == 0

EntryPoints == 1..Len(eps)

\* the keys the accessors read
KeyName == <<"name">>
KeySideEffects == <<"sideEffects">>
KeyDest == <<"dest">>
KeyEntryFile == <<"lib", ".", "entryFile">>
KeyCssUrl == <<"lib", ".", "cssUrl">>
KeyUmdModuleIds == <<"lib", ".", "umdModuleIds">>
KeyFlatModuleFile == <<"lib", ".", "flatModuleFile">>
KeyStyleIncludePaths == <<"lib", ".", "styleIncludePaths">>
KeyUmdId == <<"lib", ".", "umdId">>
KeyAmdId == <<"lib", ".", "amdId">>

RECURSIVE Descend(_, _)
\* the loop of $get over the parts of the key: it descends while the value
\* is of type 'object' and has the part as an own property, and returns
\* undefined otherwise; hasOwnProperty called on null throws
Descend(value, parts) ==
    IF parts = <<>> THEN value
    ELSE IF ~TypeofObject(value) THEN Undefined
    ELSE IF value.t = "null" THEN TypeError
    ELSE IF HasOwnProperty(value, Head(parts))
    THEN Descend(GetOwn(value, Head(parts)), Tail(parts))
    ELSE Undefined

\* $get(key)
Get(i, key) == Descend(eps[i].ngPackageJson, Split(key, "."))

entryFile(i) == Get(i, KeyEntryFile)

cssUrl(i) == Get(i, KeyCssUrl)

umdModuleIds(i) == Get(i, KeyUmdModuleIds)

entryFilePath(i) == PathResolve(host, <<eps[i].basePath, entryFile(i)>>)

isSecondaryEntryPoint(i) == Bool(eps[i].parent # NoParent)

RECURSIVE libraryDestinationPath(_)
\* a libraryDestinationPath that lets an entry point's own dest take part
libraryDestinationPath_OwnDest(i) ==
    IF eps[i].parent # NoParent /\ ~HasOwnProperty(eps[i].ngPackageJson, KeyDest)
    THEN libraryDestinationPath(eps[i].parent)
    ELSE PathResolve(host, <<eps[i].basePath, Get(i, KeyDest)>>)

libraryDestinationPath(i) ==
    IF eps[i].parent # NoParent
    THEN libraryDestinationPath(eps[i].parent)
    ELSE PathResolve(host, <<eps[i].basePath, Get(i, KeyDest)>>)

sourceRelativePath(i) ==
    IF eps[i].parent # NoParent
    THEN PathRelative(host, eps[eps[i].parent].basePath, eps[i].basePath)
    ELSE Str(<<>>)

\* a destinationPath that gives a secondary entry point no directory
destinationPath_Shared(i) == libraryDestinationPath(i)

destinationPath(i) ==
    IF eps[i].parent # NoParent
    THEN PathJoin(host, <<libraryDestinationPath(i), sourceRelativePath(i)>>)
    ELSE libraryDestinationPath(i)

\* a module id that keeps the separators of the host
ChildModuleId_HostSeparators(parentId, rel) ==
    IF Threw(parentId) \/ Threw(rel) THEN TypeError
    ELSE Str(ToStr(parentId) \o <<"/">> \o ToStr(rel))

\* ensureUnixPath(`${parentId}/${rel}`), unless evaluating either threw
ChildModuleId(parentId, rel) ==
    IF Threw(parentId) \/ Threw(rel) THEN TypeError
    ELSE ensureUnixPath(Str(ToStr(parentId) \o <<"/">> \o ToStr(rel)))

RECURSIVE moduleId(_)
moduleId(i) ==
    IF eps[i].parent # NoParent
    THEN ChildModuleId(moduleId(eps[i].parent), sourceRelativePath(i))
    ELSE Prop(eps[i].packageJson, KeyName)

\* a flattenModuleId that leaves the "@" of a scope in place
Flatten_KeepScope(id, separator) ==
    IF ~IsString(id) THEN TypeError ELSE Str(Join(Split(id.s, "/"), separator))

\* the body of flattenModuleId for the module id given: startsWith throws
\* when the id is no string
Flatten(id, separator) ==
    IF ~IsString(id) THEN TypeError
    ELSE IF StartsWith(id.s, "@")
    THEN Str(Join(Split(Tail(id.s), "/"), separator))
    ELSE Str(Join(Split(id.s, "/"), separator))

\* flattenModuleId(separator)
flattenModuleId(i, separator) == Flatten(moduleId(i), separator)

\* a || b, where evaluating a may have thrown
OrElse(a, b) == IF Threw(a) THEN TypeError ELSE IF Truthy(a) THEN a ELSE b

\* a flatModuleFile that never reads its override
flatModuleFile_Derived(i) == flattenModuleId(i, <<"-">>)

flatModuleFile(i) == OrElse(Get(i, KeyFlatModuleFile), flattenModuleId(i, <<"-">>))

umdId(i) == OrElse(Get(i, KeyUmdId), flattenModuleId(i, <<".">>))

amdId(i) == OrElse(Get(i, KeyAmdId), moduleId(i))

\* a sideEffects that takes an empty list for no side effects
sideEffects_EmptyIsFalse(i) ==
    IF Prop(eps[i].packageJson, KeySideEffects) = Arr(<<>>) THEN Bool(FALSE)
    ELSE OrElse(Prop(eps[i].packageJson, KeySideEffects), Bool(FALSE))

sideEffects(i) == OrElse(Prop(eps[i].packageJson, KeySideEffects), Bool(FALSE))

\* isAbsolute ? includePath : path.resolve(basePath, includePath)
AbsoluteOr(i, includePath, isAbsolute) ==
    IF Threw(isAbsolute) THEN TypeError
    ELSE IF isAbsolute.b THEN includePath
    ELSE PathResolve(host, <<eps[i].basePath, includePath>>)

\* includePath => path.isAbsolute(includePath) ? includePath : path.resolve(...)
IncludePath(i, includePath) ==
    AbsoluteOr(i, includePath, PathIsAbsolute(host, includePath))

\* the array map returns, unless the callback threw for an element
Mapped(mapped) ==
    IF \E k \in 1..Len(mapped) : Threw(mapped[k]) THEN TypeError ELSE Arr(mapped)

\* includePaths.map(...): map exists on arrays only
MapIncludePaths(i, includePaths) ==
    IF includePaths.t # "array" THEN TypeError
    ELSE Mapped([k \in 1..Len(includePaths.a) |-> IncludePath(i, includePaths.a[k])])

styleIncludePaths(i) ==
    MapIncludePaths(i, OrElse(Get(i, KeyStyleIncludePaths), Arr(<<>>)))

\* the file name `${moduleFileName}<ext>`
FileName(moduleFileName, ext) == Str(ToStr(moduleFileName) \o ext)

ExtMetadata == <<".", "metadata", ".", "json">>
ExtDeclarations == <<".", "d", ".", "ts">>
ExtJs == <<".", "js">>
ExtUmd == <<".", "umd", ".", "js">>
ExtUmdMin == <<".", "umd", ".", "min", ".", "js">>

\* the object destinationFiles returns for libDest, entryPointDest and
\* moduleFileName, with rel the sourceRelativePath
Files(libDest, entryPointDest, moduleFileName, rel) ==
    IF Threw(libDest) \/ Threw(entryPointDest) \/ Threw(moduleFileName) \/ Threw(rel)
    THEN TypeError
    ELSE [t |-> "DestinationFiles",
          metadata |-> PathJoin(host, <<entryPointDest,
                                        FileName(moduleFileName, ExtMetadata)>>),
          declarations |-> PathJoin(host, <<entryPointDest,
                                            FileName(moduleFileName, ExtDeclarations)>>),
          esm2015 |-> PathJoin(host, <<libDest, Str(<<"esm2015">>), rel,
                                       FileName(moduleFileName, ExtJs)>>),
          fesm2015 |-> PathJoin(host, <<libDest, Str(<<"fesm2015">>),
                                        FileName(moduleFileName, ExtJs)>>),
          umd |-> PathJoin(host, <<libDest, Str(<<"bundles">>),
                                   FileName(moduleFileName, ExtUmd)>>),
          umdMinified |-> PathJoin(host, <<libDest, Str(<<"bundles">>),
                                           FileName(moduleFileName, ExtUmdMin)>>)]

\* a destinationFiles that takes the two directories for one another
destinationFiles_Swapped(i) ==
    Files(destinationPath(i), libraryDestinationPath(i), flatModuleFile(i),
          sourceRelativePath(i))

destinationFiles(i) ==
    Files(libraryDestinationPath(i), destinationPath(i), flatModuleFile(i),
          sourceRelativePath(i))

(***************************************************************************)
(* The operations: the constructor and every public accessor.  The code is *)
(* synchronous: one operation runs at a time.  call is the operation that  *)
(* has run and whose result the caller holds (its name, the entry point it *)
(* ran on, its argument, the key of $get, and what it returned or threw);  *)
(* it is NoCall between two operations.                                    *)
(***************************************************************************)
NoCall == [op |-> "none", ep |-> 0, arg |-> <<>>, ret |-> [t |-> "undefined"]]

NewEntryPoint(packageJson, ngPackageJson, basePath, parent) ==
    [packageJson |-> packageJson, ngPackageJson |-> ngPackageJson,
     basePath |-> Str(basePath), parent |-> parent]

\* new NgEntryPoint(packageJson, ngPackageJson, basePath): the primary entry
\* point, the one entry point of a library without a parent
ConstructPrimary(packageJson, ngPackageJson, basePath) ==
    /\ call = NoCall
    /\ eps = <<>>
    /\ eps' = <<NewEntryPoint(packageJson, ngPackageJson, basePath, NoParent)>>
    /\ call' = [op |-> "constructor", ep |-> 1, arg |-> <<>>, ret |-> Undefined]
    /\ UNCHANGED host

\* new NgEntryPoint(packageJson, ngPackageJson, basePath, parent)
ConstructSecondary(packageJson, ngPackageJson, basePath, parent) ==
    /\ call = NoCall
    /\ parent \in EntryPoints
    /\ Len(eps) < MaxEntryPoints
    /\ eps' = Append(eps, NewEntryPoint(packageJson, ngPackageJson, basePath, parent))
    /\ call' = [op |-> "constructor", ep |-> Len(eps) + 1, arg |-> <<>>,
                ret |-> Undefined]
    /\ UNCHANGED host

Returned(i, op, arg, ret) ==
    /\ call = NoCall
    /\ call' = [op |-> op, ep |-> i, arg |-> arg, ret |-> ret]
    /\ UNCHANGED <<host, eps>>

CallGet(i, key) == Returned(i, "$get", key, Get(i, key))
CallEntryFile(i) == Returned(i, "entryFile", <<>>, entryFile(i))
CallEntryFilePath(i) == Returned(i, "entryFilePath", <<>>, entryFilePath(i))
CallIsSecondaryEntryPoint(i) ==
    Returned(i, "isSecondaryEntryPoint", <<>>, isSecondaryEntryPoint(i))
CallDestinationPath(i) == Returned(i, "destinationPath", <<>>, destinationPath(i))
CallLibraryDestinationPath(i) ==
    Returned(i, "libraryDestinationPath", <<>>, libraryDestinationPath(i))
CallDestinationFiles(i) == Returned(i, "destinationFiles", <<>>, destinationFiles(i))
CallCssUrl(i) == Returned(i, "cssUrl", <<>>, cssUrl(i))
CallUmdModuleIds(i) == Returned(i, "umdModuleIds", <<>>, umdModuleIds(i))
CallFlatModuleFile(i) == Returned(i, "flatModuleFile", <<>>, flatModuleFile(i))
CallStyleIncludePaths(i) == Returned(i, "styleIncludePaths", <<>>, styleIncludePaths(i))
CallModuleId(i) == Returned(i, "moduleId", <<>>, moduleId(i))
CallUmdId(i) == Returned(i, "umdId", <<>>, umdId(i))
CallAmdId(i) == Returned(i, "amdId", <<>>, amdId(i))
CallSideEffects(i) == Returned(i, "sideEffects", <<>>, sideEffects(i))

\* the caller is done with the result of the operation
Return ==
    /\ call # NoCall
    /\ call' = NoCall
    /\ UNCHANGED <<host, eps>>

\* any accessor other than $get, on any entry point constructed
Accessors ==
    \/ \E i \in EntryPoints : CallEntryFile(i)
    \/ \E i \in EntryPoints : CallEntryFilePath(i)
    \/ \E i \in EntryPoints : CallIsSecondaryEntryPoint(i)
    \/ \E i \in EntryPoints : CallDestinationPath(i)
    \/ \E i \in EntryPoints : CallLibraryDestinationPath(i)
    \/ \E i \in EntryPoints : CallDestinationFiles(i)
    \/ \E i \in EntryPoints : CallCssUrl(i)
    \/ \E i \in EntryPoints : CallUmdModuleIds(i)
    \/ \E i \in EntryPoints : CallFlatModuleFile(i)
    \/ \E i \in EntryPoints : CallStyleIncludePaths(i)
    \/ \E i \in EntryPoints : CallModuleId(i)
    \/ \E i \in EntryPoints : CallUmdId(i)
    \/ \E i \in EntryPoints : CallAmdId(i)
    \/ \E i \in EntryPoints : CallSideEffects(i)

(***************************************************************************)
(* Inputs.  A configuration is built from the fields it has: a field that  *)
(* is absent is no key of the object.                                      *)
(***************************************************************************)
\* the object with the fields of a set of <<key, value>> pairs
Fields(pairs) ==
    Obj([k \in {p[1] : p \in pairs} |-> (CHOOSE p \in pairs : p[1] = k)[2]])

\* the root directory of the host, and the library's directory in it
RootDir(h) == IF h = "win32" THEN <<"C", ":", "\\">> ELSE <<"/">>
LibDir(h) == RootDir(h) \o <<"lib">>

\* the directory rel below the directory base; base itself when rel is empty
Below(h, base, rel) ==
    IF rel = <<>> THEN base ELSE base \o <<Sep(h)>> \o ReplaceAll(rel, "/", Sep(h))

IndexTs == Str(<<"index", ".", "ts">>)

OverridesNone == {}
OverridesSet ==
    {<<<<"flatModuleFile">>, Str(<<"flat">>)>>,
     <<<<"umdId">>, Str(<<"my", ".", "umd">>)>>,
     <<<<"amdId">>, Str(<<"my", "/", "amd">>)>>}
OverridesEmpty ==
    {<<<<"flatModuleFile">>, Str(<<>>)>>,
     <<<<"umdId">>, Str(<<>>)>>,
     <<<<"amdId">>, Str(<<>>)>>}

\* lib with its entryFile and the overrides given
Lib(overrides) == Fields({<<<<"entryFile">>, IndexTs>>} \cup overrides)

NameScoped == Str(<<"@", "scope", "/", "pkg">>)
NamePlain == Str(<<"pkg">>)

DestDist == Str(<<"dist">>)
DestOut == Str(<<".", ".", "/", "out">>)
DestOther == Str(<<"other">>)
DestBuild(h) == Str(RootDir(h) \o <<"build", Sep(h), "lib">>)

(***************************************************************************)
(* Spec: a library on either host, its dest inside its sources, beside     *)
(* them or absolute, and secondary entry points in their parent's          *)
(* directory or one or two directories below it, some with a dest and a    *)
(* flatModuleFile of their own.                                            *)
(***************************************************************************)
PathsPrimaries(h) ==
    {[packageJson |-> Fields({<<KeyName, NameScoped>>}),
      ngPackageJson |-> Fields({<<<<"lib">>, Lib(OverridesNone)>>, <<KeyDest, d>>})]
       : d \in {DestDist, DestOut, DestBuild(h)}}

PathsSecondaries ==
    {[rel |-> <<"testing">>, packageJson |-> Fields({}),
      ngPackageJson |-> Fields({<<<<"lib">>, Lib(OverridesNone)>>})],
     [rel |-> <<"a", "/", "b">>, packageJson |-> Fields({}),
      ngPackageJson |-> Fields({<<<<"lib">>, Lib(OverridesNone)>>})],
     [rel |-> <<>>, packageJson |-> Fields({}),
      ngPackageJson |-> Fields({<<<<"lib">>, Lib(OverridesNone)>>})],
     [rel |-> <<"b">>, packageJson |-> Fields({<<KeyName, NamePlain>>}),
      ngPackageJson |-> Fields({<<<<"lib">>, Lib(OverridesSet)>>,
                                <<KeyDest, DestOther>>})]}

PathsKeys == {KeyDest, KeyEntryFile}

Init ==
    /\ host \in Hosts
    /\ eps = <<>>
    /\ call = NoCall

Next ==
    \/ \E c \in PathsPrimaries(host) :
          ConstructPrimary(c.packageJson, c.ngPackageJson, LibDir(host))
    \/ \E c \in PathsSecondaries, parent \in EntryPoints :
          ConstructSecondary(c.packageJson, c.ngPackageJson,
                             Below(host, eps[parent].basePath.s, c.rel), parent)
    \/ \E i \in EntryPoints, key \in PathsKeys : CallGet(i, key)
    \/ Accessors
    \/ Return

Spec == Init /\ [][Next]_vars

(***************************************************************************)
(* What the claims speak of, read off the constructor's arguments.  Every  *)
(* accessor is a function of host and eps alone, which no accessor         *)
(* changes: what holds of all entry points is stated for the states        *)
(* between two operations, and what an accessor returned for the state in  *)
(* which the caller holds its result.                                      *)
(***************************************************************************)
Idle == call = NoCall

Secondary(i) == eps[i].parent # NoParent

\* whether the string a begins with the string b
IsPrefix(b, a) == Len(b) <= Len(a) /\ SubSeq(a, 1, Len(b)) = b

\* the basePath of i is a directory below the basePath of its parent, or
\* that directory itself
BelowParent(i) ==
    \/ eps[i].basePath = eps[eps[i].parent].basePath
    \/ /\ IsPrefix(eps[eps[i].parent].basePath.s \o <<Sep(host)>>, eps[i].basePath.s)
       /\ Len(eps[i].basePath.s) > Len(eps[eps[i].parent].basePath.s) + 1

\* the directories from the parent's basePath down to the basePath of i
PathBelowParent(i) ==
    SubSeq(eps[i].basePath.s, Len(eps[eps[i].parent].basePath.s) + 2,
           Len(eps[i].basePath.s))

\* the path s with the path t below it in the host's notation
Under(s, t) == IF t = <<>> THEN s ELSE s \o <<Sep(host)>> \o t

\* the dest option of the primary entry point, resolved by hand
LibraryDestination ==
    IF Prop(eps[1].ngPackageJson, KeyDest) = DestDist
    THEN Str(Under(LibDir(host), <<"dist">>))
    ELSE IF Prop(eps[1].ngPackageJson, KeyDest) = DestOut
    THEN Str(RootDir(host) \o <<"out">>)
    ELSE Prop(eps[1].ngPackageJson, KeyDest)

\* C4: every entry point of the tree, at any depth, has the same
\* libraryDestinationPath: the primary entry point's dest resolved against
\* the primary entry point's basePath; a dest in a secondary entry point's
\* own configuration changes nothing
C4_OneLibraryDestination ==
    /\ Idle => \A i \in EntryPoints : libraryDestinationPath(i) = LibraryDestination
    /\ call.op = "libraryDestinationPath" => call.ret = LibraryDestination

\* libraryDestinationPath was read on an entry point two levels down whose
\* own configuration has a dest
C4_Witness ==
    /\ call.op = "libraryDestinationPath"
    /\ Secondary(call.ep)
    /\ Secondary(eps[call.ep].parent)
    /\ Prop(eps[call.ep].ngPackageJson, KeyDest) = DestOther
    /\ call.ret = LibraryDestination

\* C7: without a parent an entry point is not secondary, its
\* sourceRelativePath is empty and its destinationPath is the
\* libraryDestinationPath; with a parent, its sourceRelativePath is the path
\* from the parent's basePath to its basePath, and its destinationPath is the
\* libraryDestinationPath with that path below it
C7_DestinationPath ==
    Idle => \A i \in EntryPoints :
       IF Secondary(i)
       THEN /\ isSecondaryEntryPoint(i) = Bool(TRUE)
            /\ sourceRelativePath(i) = Str(PathBelowParent(i))
            /\ destinationPath(i)
                 = Str(Under(libraryDestinationPath(i).s, PathBelowParent(i)))
       ELSE /\ isSecondaryEntryPoint(i) = Bool(FALSE)
            /\ sourceRelativePath(i) = Str(<<>>)
            /\ destinationPath(i) = libraryDestinationPath(i)

\* destinationPath was read on a secondary entry point two directories below
\* its parent
C7_Witness ==
    /\ call.op = "destinationPath"
    /\ Secondary(call.ep)
    /\ PathBelowParent(call.ep) = <<"a", Sep(host), "b">>
    /\ call.ret = Str(Under(LibraryDestination.s, <<"a", Sep(host), "b">>))

\* C3: the moduleId of an entry point without a parent is the name of its
\* manifest; that of an entry point with a parent is the parent's moduleId,
\* "/", and the path from the parent's basePath to its basePath with "/" for
\* every separator of the host
C3_ModuleId ==
    Idle => \A i \in EntryPoints :
       IF Secondary(i)
       THEN /\ moduleId(i) = Str(moduleId(eps[i].parent).s \o <<"/">>
                                  \o ReplaceAll(PathBelowParent(i), Sep(host), "/"))
            /\ \A k \in 1..Len(moduleId(i).s) : moduleId(i).s[k] # "\\"
       ELSE moduleId(i) = eps[i].packageJson.o[KeyName]

\* moduleId was read on a Windows host, on an entry point two levels down
\* and two directories below its parent
C3_Witness ==
    /\ host = "win32"
    /\ call.op = "moduleId"
    /\ Secondary(call.ep)
    /\ Secondary(eps[call.ep].parent)
    /\ PathBelowParent(call.ep) = <<"a", "\\", "b">>
    /\ PathBelowParent(eps[call.ep].parent) = <<"testing">>
    /\ call.ret = Str(<<"@", "scope", "/", "pkg", "/", "testing", "/", "a", "/", "b">>)

\* the six files of i, each in the directory and with the extension given
FilesOf(i, stem) ==
    [t |-> "DestinationFiles",
     metadata |-> Str(Under(destinationPath(i).s, stem \o ExtMetadata)),
     declarations |-> Str(Under(destinationPath(i).s, stem \o ExtDeclarations)),
     esm2015 |->
       Str(Under(IF Secondary(i)
                 THEN Under(Under(libraryDestinationPath(i).s, <<"esm2015">>),
                            PathBelowParent(i))
                 ELSE Under(libraryDestinationPath(i).s, <<"esm2015">>),
                 stem \o ExtJs)),
     fesm2015 |-> Str(Under(Under(libraryDestinationPath(i).s, <<"fesm2015">>),
                            stem \o ExtJs)),
     umd |-> Str(Under(Under(libraryDestinationPath(i).s, <<"bundles">>),
                       stem \o ExtUmd)),
     umdMinified |-> Str(Under(Under(libraryDestinationPath(i).s, <<"bundles">>),
                               stem \o ExtUmdMin))]

\* C8: metadata and declarations lie in destinationPath; esm2015 lies in
\* libraryDestinationPath/esm2015/<sourceRelativePath>; fesm2015 lies in
\* libraryDestinationPath/fesm2015 and both UMD bundles in
\* libraryDestinationPath/bundles, with no directory of the entry point's
\* own; and flatModuleFile is the stem of all six file names
C8_DestinationFiles ==
    /\ Idle => \A i \in EntryPoints :
                  destinationFiles(i) = FilesOf(i, flatModuleFile(i).s)
    /\ call.op = "destinationFiles"
         => call.ret = FilesOf(call.ep, flatModuleFile(call.ep).s)

\* destinationFiles was read on the secondary entry point testing of the
\* library @scope/pkg built into /lib/dist
C8_Witness ==
    /\ host = "posix"
    /\ call.op = "destinationFiles"
    /\ Secondary(call.ep)
    /\ call.ret.esm2015 = Str(<<"/", "lib", "/", "dist", "/", "esm2015", "/", "testing",
                                "/", "scope", "-", "pkg", "-", "testing", ".", "js">>)
    /\ call.ret.fesm2015 = Str(<<"/", "lib", "/", "dist", "/", "fesm2015",
                                 "/", "scope", "-", "pkg", "-", "testing", ".", "js">>)
    /\ call.ret.declarations = Str(<<"/", "lib", "/", "dist", "/", "testing",
                                     "/", "scope", "-", "pkg", "-", "testing",
                                     ".", "d", ".", "ts">>)

\* C10: in a tree whose entry points have pairwise distinct basePaths, each
\* below its parent's, no two entry points have the same destinationPath
C10_DistinctDestinationPaths ==
    (/\ Idle
     /\ \A i, j \in EntryPoints : i # j => eps[i].basePath # eps[j].basePath
     /\ \A i \in EntryPoints : Secondary(i) => BelowParent(i))
    => \A i, j \in EntryPoints : i # j => destinationPath(i) # destinationPath(j)

(***************************************************************************)
(* SpecIds: the identifiers of a library on either host, by the name of    *)
(* its manifest (scoped, plain, or with two "@") and by the overrides of   *)
(* each entry point (none, all three set, all three the empty string).     *)
(* Every secondary entry point is the directory sub of its parent.         *)
(***************************************************************************)
NameTwice == Str(<<"@", "@", "x">>)

IdsPrimaries ==
    {[packageJson |-> Fields({<<KeyName, n>>}),
      ngPackageJson |-> Fields({<<<<"lib">>, Lib(o)>>, <<KeyDest, DestDist>>})]
       : n \in {NameScoped, NamePlain, NameTwice},
         o \in {OverridesNone, OverridesSet, OverridesEmpty}}

IdsSecondaries ==
    {[rel |-> <<"sub">>, packageJson |-> Fields({}),
      ngPackageJson |-> Fields({<<<<"lib">>, Lib(o)>>})]
       : o \in {OverridesNone, OverridesSet, OverridesEmpty}}

IdsKeys == {KeyFlatModuleFile, KeyUmdId, KeyAmdId}

NextIds ==
    \/ \E c \in IdsPrimaries :
          ConstructPrimary(c.packageJson, c.ngPackageJson, LibDir(host))
    \/ \E c \in IdsSecondaries, parent \in EntryPoints :
          ConstructSecondary(c.packageJson, c.ngPackageJson,
                             Below(host, eps[parent].basePath.s, c.rel), parent)
    \/ \E i \in EntryPoints, key \in IdsKeys : CallGet(i, key)
    \/ Accessors
    \/ Return

SpecIds == Init /\ [][NextIds]_vars

\* the option name of lib in the configuration of i, undefined when absent
LibOption(i, name) == Prop(Prop(eps[i].ngPackageJson, <<"lib">>), <<name>>)

\* a module id without the one "@" it may begin with
Unscoped(id) == IF id # <<>> /\ id[1] = "@" THEN Tail(id) ELSE id

\* C9: flattenModuleId takes one leading "@" off moduleId, if there is one,
\* and puts the separator for every "/"; without an override flatModuleFile
\* is that with "-", umdId is that with ".", and amdId is moduleId as it is:
\* "@scope/pkg/sub" gives "scope-pkg-sub" and "scope.pkg.sub", "pkg/sub"
\* gives "pkg-sub"
C9_FlattenModuleId ==
    Idle => \A i \in EntryPoints :
       /\ flattenModuleId(i, <<"-">>)
            = Str(ReplaceAll(Unscoped(moduleId(i).s), "/", "-"))
       /\ LibOption(i, "flatModuleFile") = Undefined
            => flatModuleFile(i) = Str(ReplaceAll(Unscoped(moduleId(i).s), "/", "-"))
       /\ LibOption(i, "umdId") = Undefined
            => umdId(i) = Str(ReplaceAll(Unscoped(moduleId(i).s), "/", "."))
       /\ LibOption(i, "amdId") = Undefined => amdId(i) = moduleId(i)
       /\ moduleId(i) = Str(<<"@", "scope", "/", "pkg", "/", "sub">>)
            => /\ flattenModuleId(i, <<"-">>)
                    = Str(<<"scope", "-", "pkg", "-", "sub">>)
               /\ flattenModuleId(i, <<".">>)
                    = Str(<<"scope", ".", "pkg", ".", "sub">>)
       /\ moduleId(i) = Str(<<"pkg", "/", "sub">>)
            => flattenModuleId(i, <<"-">>) = Str(<<"pkg", "-", "sub">>)
       /\ moduleId(i) = NameTwice => flattenModuleId(i, <<"-">>) = Str(<<"@", "x">>)

\* flatModuleFile was read, with no override, on the entry point
\* @scope/pkg/sub
C9_Witness ==
    /\ call.op = "flatModuleFile"
    /\ LibOption(call.ep, "flatModuleFile") = Undefined
    /\ moduleId(call.ep) = Str(<<"@", "scope", "/", "pkg", "/", "sub">>)
    /\ call.ret = Str(<<"scope", "-", "pkg", "-", "sub">>)

\* C5 as stated: when lib.flatModuleFile, lib.umdId or lib.amdId is set to
\* any string, the empty string included, the accessor returns that string
C5_AnyStringOverrides ==
    Idle => \A i \in EntryPoints :
       /\ IsString(LibOption(i, "flatModuleFile"))
            => flatModuleFile(i) = LibOption(i, "flatModuleFile")
       /\ IsString(LibOption(i, "umdId")) => umdId(i) = LibOption(i, "umdId")
       /\ IsString(LibOption(i, "amdId")) => amdId(i) = LibOption(i, "amdId")

\* whether the option name of lib is set to a string that is not empty
IsSet(i, name) == IsString(LibOption(i, name)) /\ LibOption(i, name).s # <<>>

\* C5 as amended: when lib.flatModuleFile, lib.umdId or lib.amdId is set to
\* a string that is not empty, the accessor returns that string; an empty
\* string is no override, and the accessor returns the default
C5_NonEmptyOverrides ==
    Idle => \A i \in EntryPoints :
       /\ IsSet(i, "flatModuleFile") => flatModuleFile(i) = LibOption(i, "flatModuleFile")
       /\ IsSet(i, "umdId") => umdId(i) = LibOption(i, "umdId")
       /\ IsSet(i, "amdId") => amdId(i) = LibOption(i, "amdId")
       /\ LibOption(i, "flatModuleFile") = Str(<<>>)
            => flatModuleFile(i) = flattenModuleId(i, <<"-">>)
       /\ LibOption(i, "umdId") = Str(<<>>) => umdId(i) = flattenModuleId(i, <<".">>)
       /\ LibOption(i, "amdId") = Str(<<>>) => amdId(i) = moduleId(i)

\* flatModuleFile was read on a secondary entry point whose override is set,
\* and the override is not the default
C5_Witness ==
    /\ call.op = "flatModuleFile"
    /\ Secondary(call.ep)
    /\ IsSet(call.ep, "flatModuleFile")
    /\ call.ret = Str(<<"flat">>)
    /\ call.ret # flattenModuleId(call.ep, <<"-">>)

(***************************************************************************)
(* SpecConfig: configurations with fields left out.  The primary entry     *)
(* point has a manifest with or without a name and with any sideEffects,   *)
(* or a library configuration without dest, without lib.entryFile or       *)
(* without lib; no value of a configuration is null.                       *)
(***************************************************************************)
StylesHere == Str(<<"styles">>)
StylesThere(h) == Str(RootDir(h) \o <<"shared", Sep(h), "styles">>)

\* lib with entryFile and styleIncludePaths, one relative, one absolute
LibWithStyles(h) ==
    Fields({<<<<"entryFile">>, IndexTs>>,
            <<<<"styleIncludePaths">>, Arr(<<StylesHere, StylesThere(h)>>)>>})

SideEffectsValues == {Bool(TRUE), Bool(FALSE), Arr(<<>>), Arr(<<Str(<<"*", ".", "css">>)>>)}

ConfigManifests ==
    {Fields(n \cup e) :
       n \in {{}, {<<KeyName, NameScoped>>}},
       e \in {{}} \cup {{<<KeySideEffects, v>>} : v \in SideEffectsValues}}

ConfigLibraries(h) ==
    {Fields({<<KeyDest, DestDist>>}),
     Fields({<<<<"lib">>, Fields({})>>, <<KeyDest, DestDist>>}),
     Fields({<<<<"lib">>, LibWithStyles(h)>>})}

ConfigPrimaries(h) ==
    {[packageJson |-> m,
      ngPackageJson |-> Fields({<<<<"lib">>, LibWithStyles(h)>>, <<KeyDest, DestDist>>})]
       : m \in ConfigManifests}
    \cup
    {[packageJson |-> Fields({<<KeyName, NameScoped>>}), ngPackageJson |-> c]
       : c \in ConfigLibraries(h)}

ConfigSecondaries ==
    {[rel |-> <<"testing">>, packageJson |-> Fields({}),
      ngPackageJson |-> Fields({<<<<"lib">>, Lib(OverridesNone)>>})],
     [rel |-> <<"testing">>, packageJson |-> Fields({<<KeySideEffects, Arr(<<>>)>>}),
      ngPackageJson |-> Fields({})]}

ConfigKeys == {KeyDest, KeyEntryFile, KeyStyleIncludePaths}

NextConfig ==
    \/ \E c \in ConfigPrimaries(host) :
          ConstructPrimary(c.packageJson, c.ngPackageJson, LibDir(host))
    \/ \E c \in ConfigSecondaries, parent \in EntryPoints :
          ConstructSecondary(c.packageJson, c.ngPackageJson,
                             Below(host, eps[parent].basePath.s, c.rel), parent)
    \/ \E i \in EntryPoints, key \in ConfigKeys : CallGet(i, key)
    \/ Accessors
    \/ Return

SpecConfig == Init /\ [][NextConfig]_vars

\* the field sideEffects of the manifest of i, undefined when absent
ManifestSideEffects(i) ==
    IF KeySideEffects \in DOMAIN eps[i].packageJson.o
    THEN eps[i].packageJson.o[KeySideEffects] ELSE Undefined

\* C6: sideEffects is false when the manifest has no sideEffects, and is the
\* manifest's value otherwise: true, false, a list of patterns, or the empty
\* list, which it returns as the empty list
C6_SideEffects ==
    /\ Idle => \A i \in EntryPoints :
                  IF ManifestSideEffects(i) = Undefined
                  THEN sideEffects(i) = Bool(FALSE)
                  ELSE sideEffects(i) = ManifestSideEffects(i)
    /\ call.op = "sideEffects"
         => call.ret = (IF ManifestSideEffects(call.ep) = Undefined THEN Bool(FALSE)
                        ELSE ManifestSideEffects(call.ep))

\* sideEffects was read on an entry point whose manifest has the empty list
C6_Witness ==
    /\ call.op = "sideEffects"
    /\ ManifestSideEffects(call.ep) = Arr(<<>>)
    /\ call.ret = Arr(<<>>)

\* the accessors C1 names
NamedAccessors ==
    {"entryFilePath", "libraryDestinationPath", "destinationPath", "destinationFiles",
     "moduleId", "flatModuleFile", "umdId", "amdId", "styleIncludePaths", "sideEffects"}

\* C1: no accessor of an entry point, primary or secondary, throws, whatever
\* the configuration has or lacks: each returns a value or undefined
C1_NoAccessorThrows ==
    call.op \in NamedAccessors => ~Threw(call.ret)

(***************************************************************************)
(* SpecLookup: $get on library configurations whose lib is absent, null, a *)
(* string, a number, a boolean, a list or a mapping, and whose             *)
(* lib.entryFile is a string, null or a mapping, for keys of one to three  *)
(* segments, the empty key among them.                                     *)
(***************************************************************************)
LookupLibs ==
    {Null, Str(<<"text">>), Num(5), Bool(TRUE), Arr(<<IndexTs>>),
     Fields({<<<<"entryFile">>, IndexTs>>}),
     Fields({<<<<"entryFile">>, Null>>}),
     Fields({<<<<"entryFile">>, Fields({<<<<"module">>, IndexTs>>})>>})}

LookupPrimaries ==
    {[packageJson |-> Fields({<<KeyName, NameScoped>>}),
      ngPackageJson |-> Fields({<<<<"lib">>, v>>, <<KeyDest, DestDist>>})]
       : v \in LookupLibs}
    \cup
    {[packageJson |-> Fields({<<KeyName, NameScoped>>}),
      ngPackageJson |-> Fields({<<KeyDest, DestDist>>})]}

LookupSecondaries ==
    {[rel |-> <<"testing">>, packageJson |-> Fields({}),
      ngPackageJson |-> Fields({<<<<"lib">>, v>>})]
       : v \in {Null, Fields({<<<<"entryFile">>, IndexTs>>})}}

LookupKeys ==
    {<<>>, <<"lib">>, KeyDest, KeyEntryFile, <<"lib", ".", "length">>,
     <<"lib", ".", "0">>, <<"lib", ".", "entryFile", ".", "module">>,
     <<"other", ".", "entryFile">>, <<"lib", ".", ".", "entryFile">>}

NextLookup ==
    \/ \E c \in LookupPrimaries :
          ConstructPrimary(c.packageJson, c.ngPackageJson, LibDir(host))
    \/ \E c \in LookupSecondaries, parent \in EntryPoints :
          ConstructSecondary(c.packageJson, c.ngPackageJson,
                             Below(host, eps[parent].basePath.s, c.rel), parent)
    \/ \E i \in EntryPoints, key \in LookupKeys : CallGet(i, key)
    \/ Accessors
    \/ Return

SpecLookup == Init /\ [][NextLookup]_vars

RECURSIVE Nested(_, _)
\* the value at the end of the segments parts below value: undefined as soon
\* as a segment is absent or the value reached is no mapping
Nested(value, parts) ==
    IF parts = <<>> THEN value
    ELSE IF value.t \in {"object", "array"} /\ HasOwnProperty(value, Head(parts))
    THEN Nested(GetOwn(value, Head(parts)), Tail(parts))
    ELSE Undefined

\* C2: $get(key) descends the library configuration one segment of the key
\* at a time; it returns undefined, and throws nothing, when a segment is
\* absent or the value reached before the last segment is a string, a
\* number, a boolean or null, and the nested value when every segment is
\* present
C2_GetNeverThrows ==
    call.op = "$get"
      => /\ ~Threw(call.ret)
         /\ call.ret = Nested(eps[call.ep].ngPackageJson, Split(call.arg, "."))

====
